---- MODULE Spec2Model ----
(***************************************************************************)
(* Animated fire & smoke (src/Main.cpp): the program main() as a state     *)
(* machine (setup, render loop, teardown) and the CPU noise generator      *)
(* Perlin3D as operators.                                                  *)
(*                                                                         *)
(* Number representations                                                  *)
(*  - the tunable layer parameters are floats that only ever move in       *)
(*    multiples of 0.001; they are held in thousandths (2.2f is 2200);     *)
(*  - `unsigned` values are pairs <<hi, lo>> of 16-bit limbs, so that      *)
(*    the 32-bit wrap-around of the shuffle's generator is computed;       *)
(*  - noise coordinates are floats that are multiples of 0.25, held in     *)
(*    quarters (41.5f is 166); values inside noise() are numerators over   *)
(*    a power of two, and every float operation that can round is rounded  *)
(*    to 24 significant bits (RoundF32), as single precision does.         *)
(***************************************************************************)
EXTENDS Integers, Sequences, FiniteSets

VARIABLES
    pc,          \* position of main()
    diag,        \* what was printed on stderr ("" when nothing)
    exitStatus,  \* -1 while the process runs, then its exit status
    stages,      \* setup stages passed, in order
    created,     \* GL objects created, in order of creation
    released,    \* GL objects handed to a glDelete* call, in order
    win,         \* the GLFW window: "none", "open", "destroyed"
    glfw,        \* the GLFW library: "down", "up", "terminated"
    volume,      \* the voxels uploaded to the 3D texture (by what baked them)
    bakeCount,   \* how many times make3DNoiseTex has run
    blendOn,     \* GL_BLEND enabled
    blend,       \* the blend function in force
    program,     \* the program in use
    boundTex,    \* the texture bound to GL_TEXTURE_3D
    shouldClose, \* the window's close flag
    keys,        \* the keys down as of the last glfwPollEvents
    tuned,       \* the parameter whose key pair the user operates in this run
    fireScale, smokeScale, fireSpeed, smokeSpeed, fireHeight,
    fixed,       \* smokeHeight, fireWidth, smokeWidth, fireIntensity, smokeOpacity
    ops,         \* clear / draw / present operations of the current frame
    frames,      \* frames presented so far (saturating at MaxFrames)
    seed,        \* Perlin3D: the constructor's argument
    perm, s, i,  \* Perlin3D: the constructor's locals
    p,           \* Perlin3D::p
    ph,          \* Perlin3D: "new" (in the constructor), "ready", "called"
    args,        \* noise(): the arguments of the call
    out          \* noise(): what the call computed

glVars    == <<blendOn, blend, program, boundTex>>
envVars   == <<shouldClose, keys>>
layerVars == <<fireScale, smokeScale, fireSpeed, smokeSpeed, fireHeight, fixed>>
resVars   == <<created, released, win, glfw, volume, bakeCount>>
exitVars  == <<diag, exitStatus>>
perVars   == <<seed, perm, s, i, p, ph, args, out>>
vars == <<pc, diag, exitStatus, stages, created, released, win, glfw, volume,
          bakeCount, blendOn, blend, program, boundTex, shouldClose, keys,
          tuned, fireScale, smokeScale, fireSpeed, smokeSpeed, fireHeight,
          fixed, ops, frames, seed, perm, s, i, p, ph, args, out>>

Max(a, b) == IF a < b THEN b ELSE a
Min(a, b) == IF b < a THEN b ELSE a

\* The frame counter saturates here; it only tells first frames from later ones.
MaxFrames == 2

----------------------------------------------------------------------------
(* Constants of main(), thousandths.                                        *)

InitFireScale == 3200
InitSmokeScale == 2200
InitFireSpeed == 750
InitSmokeSpeed == 180
InitFireHeight == 550
InitSmokeHeight == 1800
InitFireWidth == 520
InitSmokeWidth == 900
InitFireIntensity == 2000
InitSmokeOpacity == 550

SmokeScaleMin == 500
SmokeScaleMax == 6000
ScaleStep == 10
FireScaleMin == 800
FireScaleMax == 6000
SmokeSpeedMin == 20
SmokeSpeedMax == 800
SmokeSpeedStep == 1
FireSpeedMin == 50
FireSpeedMax == 2000
FireSpeedStep == 5
FireHeightMin == 300
FireHeightMax == 900
FireHeightStep == 5

\* make3DNoiseTex(96, 5, 2.01f, 0.52f, 42)
BakeConfig ==
    [N |-> 96, octaves |-> 5, lacunarity |-> 2010, gain |-> 520, seed |-> 42]

FixedFields ==
    [smokeHeight |-> InitSmokeHeight, fireWidth |-> InitFireWidth,
     smokeWidth |-> InitSmokeWidth, fireIntensity |-> InitFireIntensity,
     smokeOpacity |-> InitSmokeOpacity]

NoVolume == [N |-> 0, octaves |-> 0, lacunarity |-> 0, gain |-> 0, seed |-> 0]

Undeclared == [smokeHeight |-> 0, fireWidth |-> 0, smokeWidth |-> 0,
               fireIntensity |-> 0, smokeOpacity |-> 0]

Tunables == {"smokeScale", "fireScale", "smokeSpeed", "fireSpeed", "fireHeight"}

\* The decrement key and the increment key of a tunable parameter.
KeyPair(t) ==
    CASE t = "smokeScale" -> {"LEFT_BRACKET", "RIGHT_BRACKET"}
      [] t = "fireScale"  -> {"MINUS", "EQUAL"}
      [] t = "smokeSpeed" -> {"W", "S"}
      [] t = "fireSpeed"  -> {"D", "A"}
      [] t = "fireHeight" -> {"1", "2"}

SetupPcs == {"glfwInit", "createWindow", "loadGL", "bake", "quad",
             "progFire", "progSmoke", "state"}
LoopPcs == {"head", "poll", "esc", "tune", "clear", "bind", "setFire",
            "drawFire", "setSmoke", "drawSmoke", "swap"}
TeardownPcs == {"delFire", "delSmoke", "delVao", "delTex", "destroyWindow",
                "terminate"}

----------------------------------------------------------------------------
(* Setup.                                                                   *)

\* check that prints the message and goes on.
check_NoExit(ok, msg, stage, next) ==
    /\ pc' = next
    /\ stages' = IF ok THEN Append(stages, stage) ELSE stages
    /\ diag' = IF ok THEN diag ELSE msg
    /\ UNCHANGED exitStatus

\* check(ok, msg): print and exit on failure, otherwise go on to `next`.
check(ok, msg, stage, next) ==
    IF ok
    THEN /\ pc' = next
         /\ stages' = Append(stages, stage)
         /\ UNCHANGED exitVars
    ELSE /\ pc' = "exited"
         /\ diag' = msg
         /\ exitStatus' = 1
         /\ UNCHANGED stages

GlfwInit ==
    /\ pc = "glfwInit"
    /\ \E ok \in BOOLEAN :
        /\ check(ok, "[FATAL] GLFW init failed", "glfwInit", "createWindow")
        /\ glfw' = IF ok THEN "up" ELSE glfw
    /\ UNCHANGED <<created, released, win, volume, bakeCount, glVars, envVars,
                   tuned, layerVars, ops, frames, perVars>>

CreateWindow ==
    /\ pc = "createWindow"
    /\ \E ok \in BOOLEAN :
        /\ check(ok, "[FATAL] Window creation failed", "createWindow", "loadGL")
        /\ win' = IF ok THEN "open" ELSE win
    /\ UNCHANGED <<created, released, glfw, volume, bakeCount, glVars, envVars,
                   tuned, layerVars, ops, frames, perVars>>

LoadGL ==
    /\ pc = "loadGL"
    /\ \E ok \in BOOLEAN :
        check(ok, "[FATAL] GLAD init failed", "loadGL", "bake")
    /\ UNCHANGED <<resVars, glVars, envVars, tuned, layerVars, ops, frames,
                   perVars>>

\* make3DNoiseTex: bake the voxels, create the texture, upload, unbind.
Bake ==
    /\ pc = "bake"
    /\ pc' = "quad"
    /\ stages' = Append(stages, "bake")
    /\ created' = Append(created, "tex3d")
    /\ volume' = BakeConfig
    /\ bakeCount' = bakeCount + 1
    /\ boundTex' = "none"
    /\ UNCHANGED <<exitVars, released, win, glfw, blendOn, blend, program,
                   envVars, tuned, layerVars, ops, frames, perVars>>

\* makeUnitQuadVAO: a vertex array, a vertex buffer and an index buffer; only
\* the vertex array's name is returned.
MakeUnitQuadVAO ==
    /\ pc = "quad"
    /\ pc' = "progFire"
    /\ stages' = Append(stages, "quad")
    /\ created' = created \o <<"vao", "vbo", "ebo">>
    /\ UNCHANGED <<exitVars, released, win, glfw, volume, bakeCount, glVars,
                   envVars, tuned, layerVars, ops, frames, perVars>>

\* makeProgram(vs, fs): glCreateProgram, the two makeShader calls, the link,
\* the two glDeleteShader calls. `fail` is where it fails: "none", "vs", "fs"
\* (makeShader exits) or "link".
makeProgram(prog, vs, fs, fail, next) ==
    /\ created' = created \o
          CASE fail = "vs" -> <<prog, vs>>
            [] OTHER       -> <<prog, vs, fs>>
    /\ released' = IF fail = "none" THEN released \o <<vs, fs>> ELSE released
    /\ IF fail = "none"
       THEN /\ pc' = next
            /\ stages' = Append(stages, prog)
            /\ UNCHANGED exitVars
       ELSE /\ pc' = "exited"
            /\ diag' = IF fail = "link" THEN "Program link error:"
                       ELSE "Shader compile error:"
            /\ exitStatus' = 1
            /\ UNCHANGED stages

Outcomes == {"none", "vs", "fs", "link"}

MakeProgFire ==
    /\ pc = "progFire"
    /\ \E fail \in Outcomes :
        makeProgram("progFire", "fireVS", "fireFS", fail, "progSmoke")
    /\ UNCHANGED <<win, glfw, volume, bakeCount, glVars, envVars, tuned,
                   layerVars, ops, frames, perVars>>

MakeProgSmoke ==
    /\ pc = "progSmoke"
    /\ \E fail \in Outcomes :
        makeProgram("progSmoke", "smokeVS", "smokeFS", fail, "state")
    /\ UNCHANGED <<win, glfw, volume, bakeCount, glVars, envVars, tuned,
                   layerVars, ops, frames, perVars>>

\* glEnable(GL_BLEND) and the declarations of the layer parameters.
InitState ==
    /\ pc = "state"
    /\ pc' = "head"
    /\ blendOn' = TRUE
    /\ fireScale' = InitFireScale
    /\ smokeScale' = InitSmokeScale
    /\ fireSpeed' = InitFireSpeed
    /\ smokeSpeed' = InitSmokeSpeed
    /\ fireHeight' = InitFireHeight
    /\ fixed' = FixedFields
    /\ UNCHANGED <<exitVars, stages, resVars, blend, program, boundTex, envVars,
                   tuned, ops, frames, perVars>>

----------------------------------------------------------------------------
(* The render loop.                                                         *)

\* LoopTest as while (true).
LoopTest_Forever ==
    /\ pc = "head"
    /\ pc' = "poll"
    /\ ops' = <<>>
    /\ UNCHANGED <<exitVars, stages, resVars, glVars, envVars, tuned, layerVars,
                   frames, perVars>>

\* while (!glfwWindowShouldClose(win))
LoopTest ==
    /\ pc = "head"
    /\ IF shouldClose
       THEN pc' = "delFire" /\ UNCHANGED ops
       ELSE pc' = "poll" /\ ops' = <<>>
    /\ UNCHANGED <<exitVars, stages, resVars, glVars, envVars, tuned, layerVars,
                   frames, perVars>>

\* glfwPollEvents: the window system may ask to close; the key states are
\* refreshed.
PollEvents ==
    /\ pc = "poll"
    /\ pc' = "esc"
    /\ \E close \in BOOLEAN, k \in SUBSET (KeyPair(tuned) \cup {"ESCAPE"}) :
        /\ shouldClose' = (shouldClose \/ close)
        /\ keys' = k
    /\ UNCHANGED <<exitVars, stages, resVars, glVars, tuned, layerVars, ops,
                   frames, perVars>>

EscCheck ==
    /\ pc = "esc"
    /\ pc' = "tune"
    /\ shouldClose' = IF "ESCAPE" \in keys THEN TRUE ELSE shouldClose
    /\ UNCHANGED <<exitVars, stages, resVars, glVars, keys, tuned, layerVars,
                   ops, frames, perVars>>

\* The two key lines of each parameter, in the order of the source.
TuneSmokeScale(k, v) ==
    LET a == IF "LEFT_BRACKET" \in k THEN Max(SmokeScaleMin, v - ScaleStep) ELSE v
    IN  IF "RIGHT_BRACKET" \in k THEN Min(SmokeScaleMax, a + ScaleStep) ELSE a

TuneFireScale(k, v) ==
    LET a == IF "MINUS" \in k THEN Max(FireScaleMin, v - ScaleStep) ELSE v
    IN  IF "EQUAL" \in k THEN Min(FireScaleMax, a + ScaleStep) ELSE a

TuneSmokeSpeed(k, v) ==
    LET a == IF "W" \in k THEN Min(SmokeSpeedMax, v + SmokeSpeedStep) ELSE v
    IN  IF "S" \in k THEN Max(SmokeSpeedMin, a - SmokeSpeedStep) ELSE a

TuneFireSpeed(k, v) ==
    LET a == IF "D" \in k THEN Min(FireSpeedMax, v + FireSpeedStep) ELSE v
    IN  IF "A" \in k THEN Max(FireSpeedMin, a - FireSpeedStep) ELSE a

\* TuneFireHeight with the lower clamp left out.
TuneFireHeight_NoClamp(k, v) ==
    LET a == IF "1" \in k THEN v - FireHeightStep ELSE v
    IN  IF "2" \in k THEN Min(FireHeightMax, a + FireHeightStep) ELSE a

TuneFireHeight(k, v) ==
    LET a == IF "1" \in k THEN Max(FireHeightMin, v - FireHeightStep) ELSE v
    IN  IF "2" \in k THEN Min(FireHeightMax, a + FireHeightStep) ELSE a

Tune ==
    /\ pc = "tune"
    /\ pc' = "clear"
    /\ smokeScale' = TuneSmokeScale(keys, smokeScale)
    /\ fireScale' = TuneFireScale(keys, fireScale)
    /\ smokeSpeed' = TuneSmokeSpeed(keys, smokeSpeed)
    /\ fireSpeed' = TuneFireSpeed(keys, fireSpeed)
    /\ fireHeight' = TuneFireHeight(keys, fireHeight)
    /\ UNCHANGED <<exitVars, stages, resVars, glVars, envVars, tuned, fixed,
                   ops, frames, perVars>>

\* glViewport, glClearColor, glClear
Clear ==
    /\ pc = "clear"
    /\ pc' = "bind"
    /\ ops' = Append(ops, <<"clear">>)
    /\ UNCHANGED <<exitVars, stages, resVars, glVars, envVars, tuned, layerVars,
                   frames, perVars>>

\* Bind that bakes and uploads the volume again in every frame.
Bind_Rebake ==
    /\ pc = "bind"
    /\ pc' = "setFire"
    /\ boundTex' = "tex3d"
    /\ bakeCount' = bakeCount + 1
    /\ UNCHANGED <<exitVars, stages, created, released, win, glfw, volume,
                   blendOn, blend, program, envVars, tuned, layerVars, ops,
                   frames, perVars>>

\* elapsed time, aspect, glBindVertexArray, glBindTexture
Bind ==
    /\ pc = "bind"
    /\ pc' = "setFire"
    /\ boundTex' = "tex3d"
    /\ UNCHANGED <<exitVars, stages, resVars, blendOn, blend, program, envVars,
                   tuned, layerVars, ops, frames, perVars>>

\* SetFire without its glBlendFunc call.
SetFire_NoBlendFunc ==
    /\ pc = "setFire"
    /\ pc' = "drawFire"
    /\ program' = "progFire"
    /\ UNCHANGED <<exitVars, stages, resVars, blendOn, blend, boundTex, envVars,
                   tuned, layerVars, ops, frames, perVars>>

\* glBlendFunc(GL_SRC_ALPHA, GL_ONE), glUseProgram(progFire), the uniforms
SetFire ==
    /\ pc = "setFire"
    /\ pc' = "drawFire"
    /\ blend' = "SRC_ALPHA,ONE"
    /\ program' = "progFire"
    /\ UNCHANGED <<exitVars, stages, resVars, blendOn, boundTex, envVars, tuned,
                   layerVars, ops, frames, perVars>>

\* glDrawElements: drawn by the program in use under the blend function in force
glDrawElements(next) ==
    /\ pc' = next
    /\ ops' = Append(ops, <<"draw", program, IF blendOn THEN blend ELSE "off">>)
    /\ UNCHANGED <<exitVars, stages, resVars, glVars, envVars, tuned, layerVars,
                   frames, perVars>>

DrawFire == pc = "drawFire" /\ glDrawElements("setSmoke")

\* glBlendFunc(GL_SRC_ALPHA, GL_ONE_MINUS_SRC_ALPHA), glUseProgram(progSmoke)
SetSmoke ==
    /\ pc = "setSmoke"
    /\ pc' = "drawSmoke"
    /\ blend' = "SRC_ALPHA,ONE_MINUS_SRC_ALPHA"
    /\ program' = "progSmoke"
    /\ UNCHANGED <<exitVars, stages, resVars, blendOn, boundTex, envVars, tuned,
                   layerVars, ops, frames, perVars>>

DrawSmoke == pc = "drawSmoke" /\ glDrawElements("swap")

SwapBuffers ==
    /\ pc = "swap"
    /\ pc' = "head"
    /\ ops' = Append(ops, <<"present">>)
    /\ frames' = Min(frames + 1, MaxFrames)
    /\ UNCHANGED <<exitVars, stages, resVars, glVars, envVars, tuned, layerVars,
                   perVars>>

----------------------------------------------------------------------------
(* Teardown.                                                                *)

glDelete(at, obj, next) ==
    /\ pc = at
    /\ pc' = next
    /\ released' = Append(released, obj)
    /\ UNCHANGED <<exitVars, stages, created, win, glfw, volume, bakeCount,
                   glVars, envVars, tuned, layerVars, ops, frames, perVars>>

DeleteProgFire == glDelete("delFire", "progFire", "delSmoke")
DeleteProgSmoke == glDelete("delSmoke", "progSmoke", "delVao")
DeleteVao == glDelete("delVao", "vao", "delTex")
DeleteTex == glDelete("delTex", "tex3d", "destroyWindow")

DestroyWindow ==
    /\ pc = "destroyWindow"
    /\ pc' = "terminate"
    /\ win' = "destroyed"
    /\ UNCHANGED <<exitVars, stages, created, released, glfw, volume, bakeCount,
                   glVars, envVars, tuned, layerVars, ops, frames, perVars>>

\* glfwTerminate(); return 0;
Terminate ==
    /\ pc = "terminate"
    /\ pc' = "done"
    /\ glfw' = "terminated"
    /\ exitStatus' = 0
    /\ UNCHANGED <<diag, stages, created, released, win, volume, bakeCount,
                   glVars, envVars, tuned, layerVars, ops, frames, perVars>>

----------------------------------------------------------------------------
NoPerlin ==
    /\ seed = <<0, 0>>
    /\ perm = <<>>
    /\ s = <<0, 0>>
    /\ i = 0
    /\ p = <<>>
    /\ ph = "idle"
    /\ args = <<>>
    /\ out = <<>>

Init ==
    /\ pc = "glfwInit"
    /\ diag = ""
    /\ exitStatus = -1
    /\ stages = <<>>
    /\ created = <<>>
    /\ released = <<>>
    /\ win = "none"
    /\ glfw = "down"
    /\ volume = NoVolume
    /\ bakeCount = 0
    /\ blendOn = FALSE
    /\ blend = "ONE,ZERO"
    /\ program = "none"
    /\ boundTex = "none"
    /\ shouldClose = FALSE
    /\ keys = {}
    /\ tuned \in Tunables
    /\ fireScale = 0 /\ smokeScale = 0 /\ fireSpeed = 0 /\ smokeSpeed = 0
    /\ fireHeight = 0
    /\ fixed = Undeclared
    /\ ops = <<>>
    /\ frames = 0
    /\ NoPerlin

Next ==
    \/ GlfwInit \/ CreateWindow \/ LoadGL \/ Bake \/ MakeUnitQuadVAO
    \/ MakeProgFire \/ MakeProgSmoke \/ InitState
    \/ LoopTest \/ PollEvents \/ EscCheck \/ Tune \/ Clear \/ Bind
    \/ SetFire \/ DrawFire \/ SetSmoke \/ DrawSmoke \/ SwapBuffers
    \/ DeleteProgFire \/ DeleteProgSmoke \/ DeleteVao \/ DeleteTex
    \/ DestroyWindow \/ Terminate

Spec == Init /\ [][Next]_vars

----------------------------------------------------------------------------
(* Perlin3D.                                                                *)

\* unsigned s = seed; s = s * 1664525u + 1013904223u, on 16-bit limbs.
\* 1664525 = 25 * 2^16 + 26125 and 1013904223 = 15470 * 2^16 + 62303.
LcgStep(u) ==
    LET hi == u[1]
        lo == u[2]
        t  == lo * 26125
        l  == (t % 65536) + 62303
        h  == (t \div 65536) + ((hi * 26125) % 65536) + ((lo * 25) % 65536)
              + 15470 + (l \div 65536)
    IN  <<h % 65536, l % 65536>>

\* s % m for 0 < m <= 256
U32Mod(u, m) == ((u[1] % m) * (65536 % m) + u[2]) % m

\* std::swap(perm[i], perm[j])
Swap(a, j, k) == [a EXCEPT ![j] = a[k], ![k] = a[j]]

\* FillTable with i % 255 for i & 255.
FillTable_Mod255(a) == [k \in 0..511 |-> a[k % 255]]

\* for (int i = 0; i < 512; ++i) p[i] = perm[i & 255];
FillTable(a) == [k \in 0..511 |-> a[k % 256]]

\* Round a numerator to 24 significant bits, ties to even: what storing the
\* exact result of a float operation in a float does (no overflow or
\* underflow happens at the magnitudes of this model).
RECURSIVE F32Ulp(_, _)
F32Ulp(m, q) == IF m \div q < 16777216 THEN q ELSE F32Ulp(m, 2 * q)

RoundF32(n) ==
    LET m    == IF n < 0 THEN -n ELSE n
        q    == F32Ulp(m, 1)
        lo   == m % q
        base == m - lo
        up   == \/ 2 * lo > q
                \/ 2 * lo = q /\ (base \div q) % 2 = 1
        r    == IF up THEN base + q ELSE base
    IN  IF n < 0 THEN -r ELSE r

\* floorf(x), x in quarters, as a whole number
Floorf(n) == n \div 4

\* Cell as (int)x & 255: truncation toward zero in place of floorf.
Cell_Truncated(n) == (IF n < 0 THEN -((-n) \div 4) ELSE n \div 4) % 256

\* Cell with the mask 511.
Cell_Mask511(n) == Floorf(n) % 512

\* (int)floorf(x) & 255
Cell(n) == Floorf(n) % 256

\* x -= floorf(x), in quarters (exact: the difference is a float)
Frac(n) == n - 4 * Floorf(n)

\* fade(t) = t*t*t*(t*(t*6 - 15) + 10) for t in quarters, over 512. Every
\* intermediate value is a multiple of 2^-10 below 2^24, so nothing rounds.
fade(t) == (t * t * t * (t * (t * 6 - 15 * 4) + 10 * 16)) \div 2

\* grad(hash, x, y, z), offsets and result in quarters
grad(hash, x, y, z) ==
    LET h == hash % 16
        u == IF h < 8 THEN x ELSE y
        v == IF h < 4 THEN y ELSE (IF h = 12 \/ h = 14 THEN x ELSE z)
    IN  (IF h % 2 = 1 THEN -u ELSE u) + (IF (h \div 2) % 2 = 1 THEN -v ELSE v)

\* lerp(a, b, t) = a + (b - a) * t with a, b over S and t over 512: the
\* result over 512 * S, each of the three operations rounded.
lerp(a, b, t) == RoundF32(a * 512 + RoundF32(RoundF32(b - a) * t))

\* p[i]; outside the array the read is undefined and yields `junk`.
At(tab, k, junk) == IF k \in DOMAIN tab THEN tab[k] ELSE junk

\* Perlin3D::noise(x, y, z), arguments in quarters. val is the value returned,
\* over 2^30; cell is <<X, Y, Z>>; reads are the indices of p that were read.
noise(tab, xq, yq, zq, junk) ==
    LET X  == Cell(xq)
        Y  == Cell(yq)
        Z  == Cell(zq)
        x  == Frac(xq)
        y  == Frac(yq)
        z  == Frac(zq)
        u  == fade(x)
        v  == fade(y)
        w  == fade(z)
        A  == At(tab, X, junk) + Y
        AA == At(tab, A, junk) + Z
        AB == At(tab, A + 1, junk) + Z
        B  == At(tab, X + 1, junk) + Y
        BA == At(tab, B, junk) + Z
        BB == At(tab, B + 1, junk) + Z
        g(k, dx, dy, dz) == grad(At(tab, k, junk), dx, dy, dz)
        res == lerp(
                 lerp(lerp(g(AA, x, y, z), g(BA, x - 4, y, z), u),
                      lerp(g(AB, x, y - 4, z), g(BB, x - 4, y - 4, z), u), v),
                 lerp(lerp(g(AA + 1, x, y, z - 4), g(BA + 1, x - 4, y, z - 4), u),
                      lerp(g(AB + 1, x, y - 4, z - 4),
                           g(BB + 1, x - 4, y - 4, z - 4), u), v),
                 w)
    IN  [val   |-> RoundF32(res + 536870912),
         cell  |-> <<X, Y, Z>>,
         reads |-> {X, X + 1, A, A + 1, B, B + 1, AA, AB, BA, BB,
                    AA + 1, AB + 1, BA + 1, BB + 1}]

\* x + 256.0f, in quarters
Plus256(n) == RoundF32(n + 1024)

\* The seeds tried: main()'s 42, the constructor's default 1337, 0 and UINT_MAX.
Seeds == {<<0, 42>>, <<0, 1337>>, <<0, 0>>, <<65535, 65535>>}

\* The lattice cells tried on each axis, each with the four quarter offsets:
\* the first and last cell of a period, the cell before 0, the cell whose
\* table entry is 255 under seed 42, cells inside the period and one far from
\* the origin, where floats are 0.5 apart.
CellsX == {-1, 0, 41, 207, 255, 8388352}
CellsY == {-1, 0, 211, 255}
CellsZ == {-1, 0, 86, 255}
\* Only the floats among them: far from the origin a float has no quarters.
Quarters(cells) ==
    {n \in {4 * c + f : c \in cells, f \in 0..3} : RoundF32(n) = n}

\* What an out-of-bounds read may yield.
Junk == {0, 255}

\* One turn of the shuffle loop:
\* s = s * 1664525u + 1013904223u; int j = s % (i + 1); swap(perm[i], perm[j])
ShuffleStep ==
    /\ ph = "new"
    /\ i > 0
    /\ LET s1 == LcgStep(s)
           j  == U32Mod(s1, i + 1)
       IN  /\ s' = s1
           /\ perm' = Swap(perm, i, j)
    /\ i' = i - 1
    /\ UNCHANGED <<pc, exitVars, stages, resVars, glVars, envVars, tuned,
                   layerVars, ops, frames, seed, p, ph, args, out>>

\* The loop has ended: fill p, and the constructor returns.
Fill ==
    /\ ph = "new"
    /\ i = 0
    /\ ph' = "ready"
    /\ p' = FillTable(perm)
    /\ UNCHANGED <<pc, exitVars, stages, resVars, glVars, envVars, tuned,
                   layerVars, ops, frames, seed, perm, s, i, args, out>>

\* One call per.noise(x, y, z), and beside it the calls with one argument
\* moved by 256.
NoiseCall ==
    /\ ph = "ready"
    /\ ph' = "called"
    /\ \E x \in Quarters(CellsX), y \in Quarters(CellsY),
          z \in Quarters(CellsZ), junk \in Junk :
        /\ args' = <<x, y, z>>
        /\ out' = [at   |-> noise(p, x, y, z, junk),
                   px   |-> noise(p, Plus256(x), y, z, junk),
                   py   |-> noise(p, x, Plus256(y), z, junk),
                   pz   |-> noise(p, x, y, Plus256(z), junk)]
    /\ UNCHANGED <<pc, exitVars, stages, resVars, glVars, envVars, tuned,
                   layerVars, ops, frames, seed, perm, s, i, p>>

NoiseReturn ==
    /\ ph = "called"
    /\ ph' = "ready"
    /\ args' = <<>>
    /\ out' = <<>>
    /\ UNCHANGED <<pc, exitVars, stages, resVars, glVars, envVars, tuned,
                   layerVars, ops, frames, seed, perm, s, i, p>>

\* A Perlin3D object on its own: main() has not started.
NoiseInit ==
    /\ pc = "off"
    /\ diag = ""
    /\ exitStatus = -1
    /\ stages = <<>>
    /\ created = <<>>
    /\ released = <<>>
    /\ win = "none"
    /\ glfw = "down"
    /\ volume = NoVolume
    /\ bakeCount = 0
    /\ blendOn = FALSE
    /\ blend = "ONE,ZERO"
    /\ program = "none"
    /\ boundTex = "none"
    /\ shouldClose = FALSE
    /\ keys = {}
    /\ tuned = "fireHeight"
    /\ fireScale = 0 /\ smokeScale = 0 /\ fireSpeed = 0 /\ smokeSpeed = 0
    /\ fireHeight = 0
    /\ fixed = Undeclared
    /\ ops = <<>>
    /\ frames = 0
    /\ seed \in Seeds
    /\ perm = [k \in 0..255 |-> k]
    /\ s = seed
    /\ i = 255
    /\ p = <<>>
    /\ ph = "new"
    /\ args = <<>>
    /\ out = <<>>

NoiseNext == ShuffleStep \/ Fill \/ NoiseCall \/ NoiseReturn

NoiseSpec == NoiseInit /\ [][NoiseNext]_vars

\* The loop runs forever unless told to close, and every call in it returns
\* (the buffer swap waits for the display and then returns): a step that can
\* be taken is taken.
LiveSpec == Init /\ [][Next]_vars /\ WF_vars(Next)

----------------------------------------------------------------------------
(* Properties.                                                              *)

Declared == pc \in LoopPcs \cup TeardownPcs \cup {"done"}

Range(q) == {q[k] : k \in 1..Len(q)}

Times(q, e) == Cardinality({k \in 1..Len(q) : q[k] = e})

\* C1: once declared, and after any number of frames with any keys down,
\* smokeScale is in [0.5, 6.0], fireScale in [0.8, 6.0], smokeSpeed in
\* [0.02, 0.8], fireSpeed in [0.05, 2.0] and fireHeight in [0.3, 0.9]; before
\* the first frame they hold the initial values 2.2, 3.2, 0.18, 0.75, 0.55.
C1_TunablesInRange ==
    /\ Declared =>
        /\ smokeScale \in SmokeScaleMin..SmokeScaleMax
        /\ fireScale \in FireScaleMin..FireScaleMax
        /\ smokeSpeed \in SmokeSpeedMin..SmokeSpeedMax
        /\ fireSpeed \in FireSpeedMin..FireSpeedMax
        /\ fireHeight \in FireHeightMin..FireHeightMax
    /\ (pc = "head" /\ frames = 0) =>
        <<smokeScale, fireScale, smokeSpeed, fireSpeed, fireHeight>>
            = <<2200, 3200, 180, 750, 550>>

\* The decrement and the increment key of fireHeight were both down in a frame
\* that began at the lower bound: the decrement was clamped, the increment
\* then moved the value one step up.
C1_Witness ==
    /\ pc = "clear"
    /\ keys = {"1", "2"}
    /\ fireHeight = FireHeightMin + FireHeightStep
    /\ frames = MaxFrames

FrameOps ==
    << <<"clear">>,
       <<"draw", "progFire", "SRC_ALPHA,ONE">>,
       <<"draw", "progSmoke", "SRC_ALPHA,ONE_MINUS_SRC_ALPHA">>,
       <<"present">> >>

\* C2: the operations of a frame are always a prefix of: clear, the fire draw
\* by the fire program under (SRC_ALPHA, ONE), the smoke draw by the smoke
\* program under (SRC_ALPHA, ONE_MINUS_SRC_ALPHA), present; a presented frame
\* holds exactly these four, in the first frame and in every later one.
C2_FireThenSmoke ==
    /\ Len(ops) <= Len(FrameOps)
    /\ ops = SubSeq(FrameOps, 1, Len(ops))
    /\ (pc = "swap") => Len(ops) = 3
    /\ (frames > 0 /\ pc \in {"head"} \cup TeardownPcs \cup {"done"}) => ops = FrameOps

\* A second frame has been presented: its fire draw was issued after the
\* first frame had left the smoke blend function in force.
C2_Witness ==
    /\ frames >= 2
    /\ pc = "head"
    /\ ops = FrameOps
    /\ blend = "SRC_ALPHA,ONE_MINUS_SRC_ALPHA"

AllStages ==
    <<"glfwInit", "createWindow", "loadGL", "bake", "quad", "progFire",
      "progSmoke">>

\* C3: a failed setup stage prints a diagnostic and ends the process with a
\* failure status there: the stages passed are a proper prefix of the setup
\* stages, nothing was cleared, drawn or presented, and nothing happens
\* afterwards; the render loop is only entered with every stage passed and
\* nothing printed.
C3_SetupAllOrNothing ==
    /\ [](/\ stages = SubSeq(AllStages, 1, Len(stages))
          /\ (pc = "exited") =>
               /\ exitStatus = 1
               /\ diag # ""
               /\ Len(stages) < Len(AllStages)
               /\ ops = <<>> /\ frames = 0
               /\ ~blendOn /\ fixed = Undeclared
          /\ (pc \in LoopPcs) =>
               /\ stages = AllStages
               /\ diag = "" /\ exitStatus = -1
               /\ win = "open" /\ glfw = "up"
          /\ (diag # "") => pc = "exited")
    /\ [][pc = "exited" => UNCHANGED vars]_vars

\* The link of the smoke program failed, after six stages had passed.
C3_Witness ==
    /\ pc = "exited"
    /\ diag = "Program link error:"
    /\ stages = SubSeq(AllStages, 1, 6)
    /\ created = <<"tex3d", "vao", "vbo", "ebo", "progFire", "fireVS", "fireFS",
                   "progSmoke", "smokeVS", "smokeFS">>

\* The objects main() keeps a name of, in the order of their creation.
MainObjects == <<"tex3d", "vao", "progFire", "progSmoke">>

Reverse(q) == [k \in 1..Len(q) |-> q[Len(q) + 1 - k]]

\* C4: when main() returns, the four objects it holds were released in the
\* reverse of the order of their creation (smoke program, fire program, quad
\* VAO, noise texture), and every object created during setup was released
\* exactly once, before the window was destroyed and GLFW terminated.
C4_ReverseOrderRelease ==
    /\ (pc \in {"destroyWindow", "terminate", "done"}) =>
        /\ SelectSeq(released, LAMBDA o : o \in Range(MainObjects))
             = Reverse(SelectSeq(created, LAMBDA o : o \in Range(MainObjects)))
        /\ \A o \in Range(created) : Times(released, o) = 1
    /\ \A o \in Range(created) : Times(released, o) <= 1

MidFrame == LoopPcs \ {"head"}

\* C5: the close flag, once raised, stays raised; the loop head, seeing it
\* raised, goes to teardown and otherwise starts a frame; a frame in which it
\* is raised is carried through to its present; and, the loop being scheduled
\* fairly, a raised flag leads to main() returning 0 after teardown.
C5_CooperativeCancel ==
    /\ [][shouldClose => shouldClose']_vars
    /\ [][(pc = "head") => (pc' = IF shouldClose THEN "delFire" ELSE "poll")]_vars
    /\ [][(pc \in MidFrame) => (pc' \in LoopPcs)]_vars
    /\ (shouldClose /\ pc \in MidFrame) ~> (pc = "head" /\ ops = FrameOps)
    /\ shouldClose ~> (/\ pc = "done"
                       /\ exitStatus = 0
                       /\ win = "destroyed" /\ glfw = "terminated"
                       /\ Len(released) = 8)

\* Escape was seen, the frame was finished and main() has returned 0.
C5_Witness ==
    /\ pc = "done"
    /\ exitStatus = 0
    /\ "ESCAPE" \in keys
    /\ shouldClose
    /\ ops = FrameOps

\* C6: from the first loop test on, the volume has been baked exactly once,
\* with N = 96, 5 octaves, lacunarity 2.01, gain 0.52 and seed 42, and the
\* fixed layer fields hold their initial values; no step of the loop changes
\* the volume, the bake count or the fixed fields.
C6_BakedOnce ==
    /\ [](Declared =>
            /\ bakeCount = 1
            /\ volume = [N |-> 96, octaves |-> 5, lacunarity |-> 2010,
                         gain |-> 520, seed |-> 42]
            /\ Times(created, "tex3d") = 1
            /\ fixed = [smokeHeight |-> 1800, fireWidth |-> 520,
                        smokeWidth |-> 900, fireIntensity |-> 2000,
                        smokeOpacity |-> 550])
    /\ [][(pc \in LoopPcs) =>
            /\ volume' = volume
            /\ bakeCount' = bakeCount
            /\ fixed' = fixed]_vars

\* A frame that read the volume has been presented, with a tuning key down.
C6_Witness ==
    /\ pc = "head"
    /\ frames >= 1
    /\ boundTex = "tex3d"
    /\ keys \cap KeyPair(tuned) # {}
    /\ bakeCount = 1

One == 2 ^ 30

\* C7: noise returns a value in [0, 1], for every seed and every input.
C7_NoiseInUnitInterval ==
    (ph = "called") => (out.at.val >= 0 /\ out.at.val <= One)

IsPermutation(a) ==
    /\ DOMAIN a = 0..255
    /\ {a[k] : k \in 0..255} = 0..255

\* C8: for every seed, the shuffle keeps perm a permutation of 0..255 whatever
\* index it swaps with; the table built has 512 entries, the first 256 a
\* permutation of 0..255 and p[k + 256] = p[k]; once built it never changes.
C8_PermutationTable ==
    /\ [](/\ (ph = "new") => IsPermutation(perm)
          /\ (ph \in {"ready", "called"}) =>
               /\ DOMAIN p = 0..511
               /\ {p[k] : k \in 0..255} = 0..255
               /\ \A k \in 0..255 : p[k + 256] = p[k])
    /\ [][(ph \in {"ready", "called"}) => p' = p]_vars

\* The table of seed 42 is built and used, and it is the one the compiled
\* source builds (p[0] = 124, p[1] = 34, p[207] = 255, p[255] = 129).
C8_Witness ==
    /\ ph = "called"
    /\ seed = <<0, 42>>
    /\ <<p[0], p[1], p[207], p[254], p[255]>> = <<124, 34, 255, 238, 129>>
    /\ p[511] = 129

\* C9 as stated: noise(x, y, z) equals noise(x + 256, y, z), noise(x, y + 256, z)
\* and noise(x, y, z + 256), for every x, y, z.
C9_Periodic256 ==
    (ph = "called") =>
        /\ out.px.val = out.at.val
        /\ out.py.val = out.at.val
        /\ out.pz.val = out.at.val

\* C9, amended: the cell index is floor(coordinate) mod 256, in 0..255, with
\* the floor taken toward minus infinity (coordinates in [-1, 0) are in cell
\* 255), and noise is unchanged by adding 256 to a coordinate whenever that
\* sum is itself a float, that is, whenever the addition does not round.
C9_Periodic256WhenExact ==
    (ph = "called") =>
        \A k \in 1..3 :
            LET n == args[k]
                c == out.at.cell[k]
                shifted == (<<out.px, out.py, out.pz>>)[k]
            IN  /\ c \in 0..255
                /\ (n \in -4..-1) => c = 255
                /\ (n \in 0..1023) => (4 * c <= n /\ n < 4 * c + 4)
                /\ (Plus256(n) = n + 1024) =>
                     /\ shifted.val = out.at.val
                     /\ shifted.cell = out.at.cell

\* noise(-0.5, 211.25, 86.5) under seed 42: cell 255 on x, a value other than
\* the lattice value 0.5, and the same value 256 further on each axis.
C9_Witness ==
    /\ ph = "called"
    /\ seed = <<0, 42>>
    /\ args = <<-2, 845, 346>>
    /\ out.at.cell = <<255, 211, 86>>
    /\ out.at.val # One \div 2
    /\ out.px.val = out.at.val /\ out.py.val = out.at.val
    /\ out.pz.val = out.at.val

\* C10: every index of p that noise reads is in 0..511, for every seed and
\* every input, also 256 further on each axis.
C10_ReadsInBounds ==
    (ph = "called") =>
        \A r \in {out.at, out.px, out.py, out.pz} :
            /\ r.reads \subseteq 0..511
            /\ r.cell \in (0..255) \X (0..255) \X (0..255)

\* The last entry is read: p[X] = 255 and Y = 255 give A + 1 = 511.
C10_Witness ==
    /\ ph = "called"
    /\ out.at.cell[2] = 255
    /\ p[out.at.cell[1]] = 255
    /\ 511 \in out.at.reads
    /\ out.at.reads \subseteq 0..511

====
